---- MODULE Spec2Model ----
(***************************************************************************)
(* Random forest ensemble engine of rustlearn                              *)
(* (src/src/ensemble/random_forest.rs): Hyperparameters::new / rng /       *)
(* build, RandomForest::fit and decision_function over dense and sparse    *)
(* input, and RandomForest::bootstrap_indices.                             *)
(*                                                                         *)
(* A random stream (EncodableRng wrapping StdRng) is a pair of a seed and  *)
(* a position: draw number pos of the stream seeded with seed.  One draw   *)
(* is one call of rng.sample(range).                                       *)
(***************************************************************************)
EXTENDS Integers, Sequences, FiniteSets, TLC

\* ---------------------------------------------------------------- bounds
MaxTrees == 2       \* largest num_trees given to Hyperparameters::new
MaxRows == 3        \* largest X.rows() given to fit / decision_function
MaxFits == 2        \* fit calls made on one built forest
WordBits == 16      \* width of the machine word (usize) and of one raw rng word

\* ------------------------------------------------------ program constants
SeedLen == 32       \* let mut seed = [0; 32]
U8Max == 255        \* u8::MAX

UsizeModulus == 2 ^ WordBits

VARIABLES
    hp,             \* the Hyperparameters value: [num_trees, rng]
    forest,         \* the RandomForest value: [built, trees, rng]
    overflowChecks, \* whether the build panics on integer overflow (debug) or wraps (release)
    fitCalls,       \* number of fit calls made on the current forest
    masterAtBuild,  \* hp.rng as it was when the current forest was built
    prev,           \* hp and forest as they were before the last operation
    last            \* the last operation, its inputs and what it returned

vars == <<hp, forest, overflowChecks, fitCalls, masterAtBuild, prev, last>>

\* ------------------------------------------------------------ the stream
\* EncodableRng::new(): the default stream.
DefaultRng == [seed |-> 0, pos |-> 0]

\* The raw word the stream yields at its current position.
Raw(rng) ==
    ((rng.seed * 7919 + 104729) * (rng.pos + 1) + rng.pos * rng.pos * 31) % UsizeModulus

\* Uniform::new(low, high): the half-open range [low, high); panics when low >= high.
UniformNew(low, high) == [ok |-> low < high, low |-> low, high |-> high]

\* The values a Uniform range can yield.
Support(range) == {v \in range.low .. (range.high - 1) : TRUE}

\* rng.sample(range): one draw, mapped onto [low, high); the stream advances by one.
Sample(rng, range) ==
    [value |-> range.low + (Raw(rng) % (range.high - range.low)),
     rng   |-> [rng EXCEPT !.pos = @ + 1]]

\* ------------------------------------------------------------ build
\* The range each seed byte is drawn from.
SeedRange == UniformNew(0, U8Max)

\* for s in seed.iter_mut() { *s = rng.rng.sample(range) }: bytes k..SeedLen of one seed.
RECURSIVE DrawSeed(_, _, _)
DrawSeed(k, rng, seed) ==
    IF k > SeedLen THEN [seed |-> seed, rng |-> rng]
    ELSE LET s == Sample(rng, SeedRange)
         IN  DrawSeed(k + 1, s.rng, Append(seed, s.value))

\* hyperparams.rng(from_seed(seed)); hyperparams.build(): an untrained learner.
NewTree(seed) == [seed |-> seed, fitted |-> FALSE, trainedOn |-> <<>>]

\* The stream the seed-drawing loop of build() starts from.
BuildWorkingRng(h) == h.rng

\* build() as it would be if every learner drew its seed from a fresh clone of the master.
RECURSIVE BuildTreesCloned(_, _, _, _)
BuildTreesCloned(i, n, rng, trees) ==
    IF i > n THEN [trees |-> trees, rng |-> rng]
    ELSE LET d == DrawSeed(1, rng, <<>>)
         IN  BuildTreesCloned(i + 1, n, rng, Append(trees, NewTree(d.seed)))

\* for _ in 0..num_trees { ... trees.push(...) }: learners i..n, drawn from one working copy.
RECURSIVE BuildTrees(_, _, _, _)
BuildTrees(i, n, rng, trees) ==
    IF i > n THEN [trees |-> trees, rng |-> rng]
    ELSE LET d == DrawSeed(1, rng, <<>>)
         IN  BuildTrees(i + 1, n, d.rng, Append(trees, NewTree(d.seed)))

\* build() as it would be if it handed the forest the working copy it drew the seeds from.
BuildForestRngAdvanced(h, working) == working

\* The sampling stream build() gives the forest: self.rng.clone().
BuildForestRng(h, working) == h.rng

\* Hyperparameters::build(&self) -> RandomForest
BuildForest(h) ==
    LET b == BuildTrees(1, h.num_trees, BuildWorkingRng(h), <<>>)
    IN  [built |-> TRUE, trees |-> b.trees, rng |-> BuildForestRng(h, b.rng)]

NoForest == [built |-> FALSE, trees |-> <<>>, rng |-> DefaultRng]

\* The record of an operation that took no matrix and returned nothing.
NoOp == [op |-> "new", result |-> "ok", site |-> "none", kind |-> "none", rows |-> 0,
         given |-> "none", failAt |-> 0, drawn |-> <<>>, df |-> <<>>]

\* ------------------------------------------------------------ bootstrap
\* num_indices - 1 on usize: panics on overflow when the build checks it, wraps otherwise.
UsizeSub(a, b) ==
    IF a >= b THEN [ok |-> TRUE, value |-> a - b]
    ELSE [ok |-> ~overflowChecks, value |-> (a - b) % UsizeModulus]

\* The range as it would be with an inclusive upper bound of num_indices.
BootstrapRangeInclusive(num_indices, high) == UniformNew(0, num_indices + 1)

\* let range = Uniform::new(0, num_indices - 1)
BootstrapRange(num_indices, high) == UniformNew(0, high.value)

\* (0..num_indices).map(|_| rng.sample(range)).collect(): entries k..count.
RECURSIVE DrawIndices(_, _, _, _, _)
DrawIndices(k, count, rng, range, indices) ==
    IF k > count THEN [indices |-> indices, rng |-> rng]
    ELSE LET s == Sample(rng, range)
         IN  DrawIndices(k + 1, count, s.rng, range, Append(indices, s.value))

\* The number of entries bootstrap_indices collects.
BootstrapCount(num_indices) == num_indices

\* RandomForest::bootstrap_indices(num_indices, rng) -> Vec<usize>
bootstrap_indices(num_indices, rng) ==
    LET high  == UsizeSub(num_indices, 1)
        range == BootstrapRange(num_indices, high)
    IN  IF ~high.ok \/ ~range.ok
        THEN [status |-> "panic", indices |-> <<>>, range |-> range, rng |-> rng]
        ELSE LET d == DrawIndices(1, BootstrapCount(num_indices), rng, range, <<>>)
             IN  [status |-> "ok", indices |-> d.indices, range |-> range, rng |-> d.rng]

\* ------------------------------------------------------------ matrices
\* A matrix as the forest sees it: its row count and its representation
\* ("dense", "sparse_row" or "sparse_column").
Matrix(rows, repr) == [rows |-> rows, repr |-> repr]

\* X.get_rows(&indices): the rows at indices, in order; an index >= X.rows() panics.
GetRows(X, indices) ==
    [ok   |-> \A k \in 1..Len(indices) : indices[k] >= 0 /\ indices[k] < X.rows,
     rows |-> Len(indices), picks |-> indices, repr |-> X.repr]

\* SparseColumnArray::from(&x): same contents, column oriented.
ToColumns(x) == [x EXCEPT !.repr = "sparse_column"]

\* What fit hands the learner: the selected rows, converted for sparse input.
LearnerInput(X, x) == IF X.repr = "sparse_row" THEN ToColumns(x) ELSE x

\* ------------------------------------------------------------ fit
\* tree.fit(&x, &y) succeeding on the resampled rows x.
TrainTree(tree, x) ==
    [tree EXCEPT !.fitted = TRUE, !.trainedOn = x.picks]

\* The learners after learner i trained successfully inside the loop of fit.
FitStep(trees, i, x) == [trees EXCEPT ![i] = TrainTree(@, x)]

\* What bootstrap_indices gave one learner: the index set and the range it came from.
Drawn(b) == [indices |-> b.indices, range |-> b.range]

\* for tree in &mut self.trees { indices = bootstrap_indices(..); tree.fit(..)? }
\* from learner i on; failAt is the first learner whose own fit fails (0: none does);
\* drawn collects, per learner, the index set drawn and the range it was drawn from.
\* A panic (in bootstrap_indices or get_rows) unwinds out of fit with the learners
\* trained so far left as they are; a learner whose own fit fails is taken to be
\* left as it was by that fit.
RECURSIVE FitTrees(_, _, _, _, _, _)
FitTrees(i, trees, rng, X, failAt, drawn) ==
    IF i > Len(trees)
    THEN [result |-> "ok", site |-> "none", trees |-> trees, rng |-> rng, drawn |-> drawn,
          given |-> LearnerInput(X, GetRows(X, <<>>)).repr]
    ELSE LET b == bootstrap_indices(X.rows, rng)
             x == GetRows(X, b.indices)
         IN  IF b.status = "panic"
             THEN [result |-> "panic", site |-> "bootstrap_indices", trees |-> trees,
                   rng |-> b.rng, drawn |-> drawn, given |-> "none"]
             ELSE IF ~x.ok
             THEN [result |-> "panic", site |-> "get_rows", trees |-> trees,
                   rng |-> b.rng, drawn |-> Append(drawn, Drawn(b)), given |-> "none"]
             ELSE IF i = failAt
             THEN [result |-> "err", site |-> "tree.fit", trees |-> trees, rng |-> b.rng,
                   drawn |-> Append(drawn, Drawn(b)), given |-> LearnerInput(X, x).repr]
             ELSE FitTrees(i + 1, FitStep(trees, i, LearnerInput(X, x)),
                           b.rng, X, failAt, Append(drawn, Drawn(b)))

\* fit as it would be if it stored the working copy back whatever the outcome.
FitCommitAlways(f, r) == r.rng

\* fit as it would be if it never stored the working copy back.
FitCommitNever(f, r) == f.rng

\* The stream the forest holds when fit returns: self.rng = rng only after the loop.
FitCommit(f, r) == IF r.result = "ok" THEN r.rng ELSE f.rng

\* The forest as fit leaves it: the learners are trained in place.
FitForest(f, r) == [f EXCEPT !.trees = r.trees, !.rng = FitCommit(f, r)]

\* ------------------------------------------------------------ decision_function
RECURSIVE SumSeq(_)
SumSeq(s) == IF s = <<>> THEN 0 ELSE Head(s) + SumSeq(Tail(s))

\* One learner's score for row r of x: fixed by the learner's state and the row.
TreeScore(tree, x, r) ==
    ((tree.seed[1] + SumSeq(tree.trainedOn) + r) % 5) - 2

\* tree.decision_function(x): a rows x 1 score.
TreeDecisionFunction(tree, x) == [r \in 1..x.rows |-> TreeScore(tree, x, r)]

\* Array::zeros(rows, 1)
Zeros(rows) == [r \in 1..rows |-> 0]

\* df.add_inplace(&other)
AddInplace(df, other) == [r \in 1..Len(df) |-> df[r] + other[r]]

\* df.div_inplace(n as f32): each entry becomes the quotient entry / n.
DivInplace(df, n) == [r \in 1..Len(df) |-> [num |-> df[r], den |-> n]]

\* for tree in &self.trees { df.add_inplace(&tree.decision_function(x)?) }
\* from learner i on; failAt is the first learner whose decision_function fails (0: none).
RECURSIVE Accumulate(_, _, _, _, _)
Accumulate(i, trees, df, x, failAt) ==
    IF i > Len(trees) THEN [result |-> "ok", df |-> df]
    ELSE IF i = failAt THEN [result |-> "err", df |-> <<>>]
    ELSE Accumulate(i + 1, trees, AddInplace(df, TreeDecisionFunction(trees[i], x)),
                    x, failAt)

\* The divisor as it would be if the count were off by one.
DivisorOffByOne(f) == Len(f.trees) + 1

\* The divisor of the aggregation: self.trees.len().
Divisor(f) == Len(f.trees)

\* RandomForest::decision_function(&self, X) -> Result<Array, &str>
decision_function(f, X, failAt) ==
    LET x == IF X.repr = "sparse_row" THEN ToColumns(X) ELSE X
        a == Accumulate(1, f.trees, Zeros(X.rows), x, failAt)
    IN  IF a.result = "ok"
        THEN [result |-> "ok", given |-> x.repr, df |-> DivInplace(a.df, Divisor(f))]
        ELSE [result |-> "err", given |-> x.repr, df |-> <<>>]

\* ------------------------------------------------------------ state machine
\* The streams a caller hands to Hyperparameters::rng.
Streams == {[seed |-> 1, pos |-> 0], [seed |-> 2, pos |-> 5]}

\* Hyperparameters::new(tree_hyperparameters, num_trees)
Init ==
    /\ hp \in [num_trees : 0..MaxTrees, rng : {DefaultRng}]
    /\ forest = NoForest
    /\ overflowChecks \in BOOLEAN
    /\ fitCalls = 0
    /\ masterAtBuild = DefaultRng
    /\ prev = [hp |-> hp, forest |-> NoForest]
    /\ last = NoOp

\* Hyperparameters::rng(&mut self, rng)
SetRng ==
    \E r \in Streams :
        /\ hp' = [hp EXCEPT !.rng = r]
        /\ prev' = [hp |-> hp, forest |-> forest]
        /\ last' = [NoOp EXCEPT !.op = "rng"]
        /\ UNCHANGED <<forest, overflowChecks, fitCalls, masterAtBuild>>

\* Hyperparameters::build(&self)
Build ==
    /\ forest' = BuildForest(hp)
    /\ fitCalls' = 0
    /\ masterAtBuild' = hp.rng
    /\ prev' = [hp |-> hp, forest |-> forest]
    /\ last' = [NoOp EXCEPT !.op = "build"]
    /\ UNCHANGED <<hp, overflowChecks>>

\* RandomForest::fit(&mut self, X, y) on a matrix of representation kind
Fit(kind) ==
    /\ forest.built
    /\ fitCalls < MaxFits
    /\ \E rows \in 0..MaxRows, failAt \in 0..Len(forest.trees) :
        LET r == FitTrees(1, forest.trees, forest.rng, Matrix(rows, kind), failAt, <<>>)
        IN  /\ forest' = FitForest(forest, r)
            /\ last' = [NoOp EXCEPT !.op = "fit", !.result = r.result, !.site = r.site,
                                    !.kind = kind, !.rows = rows, !.failAt = failAt, !.given = r.given,
                                    !.drawn = r.drawn]
    /\ fitCalls' = fitCalls + 1
    /\ prev' = [hp |-> hp, forest |-> forest]
    /\ UNCHANGED <<hp, overflowChecks, masterAtBuild>>

\* impl SupervisedModel<&Array> for RandomForest: fit
FitDense == Fit("dense")

\* impl SupervisedModel<&SparseRowArray> for RandomForest: fit
FitSparse == Fit("sparse_row")

\* RandomForest::decision_function(&self, X) on a matrix of representation kind
DecisionFunction(kind) ==
    /\ forest.built
    /\ \E rows \in 0..MaxRows, failAt \in 0..Len(forest.trees) :
        LET r == decision_function(forest, Matrix(rows, kind), failAt)
        IN  last' = [NoOp EXCEPT !.op = "decision_function", !.result = r.result,
                                 !.kind = kind, !.rows = rows, !.given = r.given,
                                 !.failAt = failAt, !.df = r.df]
    /\ prev' = [hp |-> hp, forest |-> forest]
    /\ UNCHANGED <<hp, forest, overflowChecks, fitCalls, masterAtBuild>>

\* impl SupervisedModel<&Array> for RandomForest: decision_function
DecisionFunctionDense == DecisionFunction("dense")

\* impl SupervisedModel<&SparseRowArray> for RandomForest: decision_function
DecisionFunctionSparse == DecisionFunction("sparse_row")

\* Configuring, building and training a forest.
Next ==
    \/ SetRng
    \/ Build
    \/ FitDense
    \/ FitSparse

Spec == Init /\ [][Next]_vars

\* Building, training and scoring a forest configured with the default stream.
NextPredict ==
    \/ Build
    \/ FitDense
    \/ FitSparse
    \/ DecisionFunctionDense
    \/ DecisionFunctionSparse

SpecPredict == Init /\ [][NextPredict]_vars

\* ====================================================================== claims
\* The stream rng after k more draws.
After(rng, k) == [rng EXCEPT !.pos = @ + k]

\* The number of learners of the forest.
N == Len(forest.trees)

\* The last operation was a fit / a decision_function.
IsFit == last.op = "fit"
IsScore == last.op = "decision_function"

\* Draw k (from 0) of a stream, mapped onto [0, width).
DrawOf(rng, k, width) == Raw(After(rng, k)) % width

\* The sum of the learners' own scores for row r.
RECURSIVE SumScores(_, _, _)
SumScores(trees, x, r) ==
    IF trees = <<>> THEN 0
    ELSE TreeScore(trees[Len(trees)], x, r) + SumScores(SubSeq(trees, 1, Len(trees) - 1), x, r)

\* C1: for a forest with at least one learner and a matrix with at least one row
\* (one row included), fit completes without failure when no learner fails, and
\* decision_function on that matrix, no learner failing, returns a score with one
\* entry per row.
C1_FitThenScore ==
    /\ (IsFit /\ N >= 1 /\ last.rows >= 1 /\ last.failAt = 0) => last.result = "ok"
    /\ (IsScore /\ N >= 1 /\ last.rows >= 1 /\ last.failAt = 0 /\ fitCalls >= 1)
           => (last.result = "ok" /\ Len(last.df) = last.rows)

\* C2: a fit in which a learner fails returns that failure and leaves the forest's
\* sampling stream exactly as it was before the call; the stream is replaced, by
\* the working copy advanced over every draw of the call, only when fit succeeds.
C2_CommitOnlyOnSuccess ==
    IsFit =>
        /\ (last.failAt \in 1..N /\ last.result # "panic") => last.result = "err"
        /\ last.result = "err" => forest.rng = prev.forest.rng
        /\ forest.rng # prev.forest.rng => last.result = "ok"
        /\ last.result = "ok" => forest.rng = After(prev.forest.rng, N * last.rows)

\* A fit failed at the second learner after the working copy had drawn two index sets.
C2_Witness ==
    /\ IsFit /\ last.result = "err" /\ last.failAt = 2
    /\ last.rows >= 2 /\ Len(last.drawn) = 2
    /\ forest.rng = prev.forest.rng

\* C3: when a learner fails during fit, every learner of the forest is afterwards in
\* the state it had before the call.
C3_NoPartialState ==
    (IsFit /\ last.result = "err") => forest.trees = prev.forest.trees

\* C4: fit of a forest with at least one learner on a matrix with no rows fails at
\* the sampling step, and no index set is returned for it.
C4_ZeroRowsFail ==
    (IsFit /\ N >= 1 /\ last.rows = 0) =>
        /\ last.result = "panic"
        /\ last.site = "bootstrap_indices"
        /\ last.drawn = <<>>

\* C5: a successful fit of N learners on R rows leaves the stream advanced by N*R
\* draws, learner i's index set being draws (i-1)*R .. (i-1)*R+R-1 counted from the
\* stream the forest held before the call (the one the previous fit left).
C5_StreamContinues ==
    (IsFit /\ last.result = "ok") =>
        /\ forest.rng = After(prev.forest.rng, N * last.rows)
        /\ Len(last.drawn) = N
        /\ \A i \in 1..N :
            /\ Len(last.drawn[i].indices) = last.rows
            /\ \A j \in 1..last.rows :
                last.drawn[i].indices[j] =
                    DrawOf(prev.forest.rng, (i - 1) * last.rows + (j - 1), last.rows - 1)

\* A second successful fit of two learners, drawing from where the first one stopped.
C5_Witness ==
    /\ IsFit /\ last.result = "ok" /\ fitCalls = 2
    /\ N = 2 /\ last.rows >= 2
    /\ prev.forest.rng.pos > masterAtBuild.pos
    /\ forest.rng.pos = prev.forest.rng.pos + 2 * last.rows

\* C6: build() returns a forest whose sampling stream is the master stream as it was
\* at the call, leaves the configuration unchanged, and the index set learner i draws
\* in the first fit is fixed by the master stream, the row count and i alone, whatever
\* the size of the forest.
C6_BuildKeepsStreamsApart ==
    /\ last.op = "build" =>
        /\ forest.rng = prev.hp.rng
        /\ hp = prev.hp
        /\ masterAtBuild = hp.rng
    /\ (IsFit /\ fitCalls = 1) =>
        \A i \in 1..Len(last.drawn) : \A j \in 1..Len(last.drawn[i].indices) :
            last.drawn[i].indices[j] =
                DrawOf(masterAtBuild, (i - 1) * last.rows + (j - 1), last.rows - 1)

\* The first fit of a forest of two seeded learners built from a caller's stream.
C6_Witness ==
    /\ IsFit /\ fitCalls = 1 /\ last.result = "ok"
    /\ N = 2 /\ last.rows = MaxRows
    /\ masterAtBuild.seed # 0
    /\ prev.forest.rng = masterAtBuild

\* C7: when every learner's decision_function succeeds, the forest's score has one
\* entry per row, and entry r is the sum of all learners' scores for r over the
\* number of learners.
C7_UnweightedMean ==
    (IsScore /\ last.result = "ok" /\ N >= 1) =>
        /\ Len(last.df) = last.rows
        /\ \A r \in 1..last.rows :
            /\ last.df[r].den = N
            /\ last.df[r].num = SumScores(forest.trees, Matrix(last.rows, last.given), r)

\* Two trained learners scored a sparse matrix, one entry with a non-zero sum.
C7_Witness ==
    /\ IsScore /\ last.result = "ok" /\ last.kind = "sparse_row"
    /\ N = 2 /\ last.rows >= 2 /\ fitCalls >= 1
    /\ \E r \in 1..last.rows : last.df[r].num # 0 /\ last.df[r].den = 2

\* C8: for a matrix with at least two rows, every row index below the row count,
\* the last one included, is a value the range of bootstrap_indices can yield.
C8_WholeRange ==
    IsFit =>
        \A i \in 1..Len(last.drawn) :
            last.rows >= 2 => \A r \in 0..(last.rows - 1) : r \in Support(last.drawn[i].range)

\* C9: every index set fit draws has as many entries as the matrix has rows, each at
\* least 0 and below the row count, and get_rows never panics on an index.
C9_BootstrapSize ==
    IsFit =>
        /\ last.site # "get_rows"
        /\ \A i \in 1..Len(last.drawn) :
            /\ Len(last.drawn[i].indices) = last.rows
            /\ \A j \in 1..Len(last.drawn[i].indices) :
                last.drawn[i].indices[j] >= 0 /\ last.drawn[i].indices[j] < last.rows

\* Two index sets of MaxRows entries were drawn from a sparse matrix, not all entries equal.
C9_Witness ==
    /\ IsFit /\ last.kind = "sparse_row" /\ last.rows = MaxRows
    /\ Len(last.drawn) = 2
    /\ \E i \in 1..2 : \E j, k \in 1..last.rows :
        last.drawn[i].indices[j] # last.drawn[i].indices[k]

\* C10: learner i of a built forest holds a seed of SeedLen bytes, each below U8Max,
\* byte k being draw SeedLen*(i-1) + k-1 of the master stream as it was at build().
C10_FreshSeeds ==
    forest.built =>
        \A i \in 1..N :
            /\ Len(forest.trees[i].seed) = SeedLen
            /\ \A k \in 1..SeedLen :
                /\ forest.trees[i].seed[k] \in 0..(U8Max - 1)
                /\ forest.trees[i].seed[k] =
                       DrawOf(masterAtBuild, SeedLen * (i - 1) + (k - 1), U8Max)

\* A forest of two learners whose seeds differ, built from a caller's stream.
C10_Witness ==
    /\ forest.built /\ N = 2 /\ masterAtBuild.seed # 0
    /\ forest.trees[1].seed # forest.trees[2].seed
    /\ \E k \in 1..SeedLen : forest.trees[2].seed[k] >= 128
====
